---- MODULE Spec2Model ----
(***************************************************************************)
(* A model of offal's revision history analysis (src/offal/commands/       *)
(* history.py): the diff hunk parser check_line_in_diff, the line          *)
(* provenance tracer trace_line_history, the blame lookup, the revision    *)
(* filters, the history command and traverse_commits; of the related-files *)
(* ranking (commands/related.py, get_files_changed); of the pin store      *)
(* (pinned.py) and of the pin and related commands (commands/pin.py).      *)
(*                                                                         *)
(* Python values are encoded as follows.                                   *)
(*   str            a sequence of one-character strings, <<"a", "b">>      *)
(*   Optional[T]    None is <<>>, a present value x is <<x>>               *)
(*   list           a sequence                                             *)
(*   Commit         a record; hexsha is a small integer                    *)
(***************************************************************************)
EXTENDS Integers, Sequences, FiniteSets, TLC

VARIABLES
    \* ---- check_line_in_diff, one call, statement by statement
    diff_lines,      \* diff.diff.decode("utf-8").splitlines()
    cl_line_number,  \* the parameter line_number of the call (never changes)
    line_idx,        \* position of the for loop in diff_lines (next line to read)
    line_offset,     \* the local line_offset
    cur_line,        \* the local line_number, which the loop rebinds
    cl_pc,           \* "loop" | "done"
    cl_result,       \* the returned boolean (FALSE until the call returns)
    cl_hist,         \* parser state before each loop iteration, oldest first
    \* ---- trace_line_history, one call, one loop iteration per step
    repo,            \* the commit graph: repo[c] = [parents, diffs]
    initial_commit,  \* parameter initial_commit
    line_number,     \* parameter line_number of trace_line_history
    current_commit,  \* local current_commit
    revisions,       \* local revisions
    tr_pc,           \* "loop" | "done"
    tr_calls,        \* the check_line_in_diff calls made so far, oldest first
    tr_steps,        \* number of iterations of the while loop begun so far
    \* ---- get_revisions, one call
    gr_retrieved,    \* the list lines 62-65 got from the repository
    gr_reverse,      \* parameter reverse
    gr_author,       \* parameter author (Optional[str])
    gr_before,       \* parameter before (Optional[datetime])
    gr_after,        \* parameter after (Optional[datetime])
    gr_pc,           \* "call" | "done"
    gr_filtered,     \* the local revisions after filter_revisions (line 67)
    gr_result,       \* the returned list
    \* ---- the history command, one run
    h_file_path,         \* option --file (Optional[str])
    pinned_item,         \* what get_pinned_item("file") returns (Optional[str])
    h_line_number,       \* option --line (Optional[int])
    ignore_line_number,  \* option --ignore-line-number
    limit,               \* option --limit
    h_reverse,           \* option --reverse
    h_author,            \* option --author (Optional[str])
    h_before,            \* option --before (Optional[str])
    h_after,             \* option --after (Optional[str])
    traverse,            \* option --traverse
    repository,          \* what the repository answers to the two log queries
    h_pc,                \* "file_info" | "dates" | "revisions" | "report" | "done"
    file_info,           \* the pair get_file_info returned
    use_line_number,     \* local use_line_number
    before_date,         \* local before_date
    after_date,          \* local after_date
    commits,             \* local commits
    output,              \* what the run printed, oldest first
    gr_calls,            \* number of get_revisions calls made by the run
    \* ---- show_related_files (commands/related.py), one call
    rl_repo,         \* what iter_commits(paths=file_path) answers
    rl_file_path,    \* parameter file_path
    rl_pc,           \* "start" | "loop" | "summary" | "detail" | "done"
    rl_commits,      \* local commits
    rl_idx,          \* position of the for loop of line 41 in commits
    file_changes,    \* local file_changes, a Counter
    commit_info,     \* local commit_info
    rl_output,       \* what the call printed, oldest first
    \* ---- traverse_commits, one call, one loop iteration per step
    tv_commits,      \* parameter commits
    tv_file_path,    \* parameter file_path
    tv_index,        \* local index
    tv_pc,           \* "loop" | "done"
    tv_log,          \* per iteration: index shown, panel, input, index after
    \* ---- the blame lookup: get_blame_item, extract_commit_from_blame
    blame_answer,    \* what repo.blame("HEAD", file_path, L=...) answers
    bl_line_number,  \* parameter line_number of get_blame_item
    bl_pc,           \* "blame" | "extract" | "boundary" | "done"
    blame_item,      \* what get_blame_item returned (Optional)
    bl_commit,       \* what extract_commit_from_blame returned (Optional)
    bl_raised,       \* the exception in flight (Optional class name)
    bl_output,       \* what the command boundary printed
    \* ---- the pin store (pinned.py), calls made in one process
    ps_file,         \* the text of the pinned file
    ps_cache,        \* lru_cache of parse_pinned_file: None or the cached dict
    ps_returned,     \* outcome of the last call: [op, key, raised, value]
    ps_before,       \* what each key read as before the last call
    ps_expected,     \* per key, the most recent set not undone since (Optional)
    ps_preserved,    \* every key and value set so far survives the line format
    ps_calls,        \* number of calls made so far
    \* ---- the commands pin, related and history, one process per run
    cm_in_repo,      \* the working directory is inside a git work tree
    cm_file,         \* the text of the pinned file between the runs
    cm_log           \* per run: command, argument, outcome, exception class

parserVars == <<diff_lines, cl_line_number, line_idx, line_offset, cur_line,
                cl_pc, cl_result, cl_hist>>
traceVars == <<repo, initial_commit, line_number, current_commit, revisions,
               tr_pc, tr_calls, tr_steps>>
revVars == <<gr_retrieved, gr_reverse, gr_author, gr_before, gr_after, gr_pc,
             gr_filtered, gr_result>>
histVars == <<h_file_path, pinned_item, h_line_number, ignore_line_number, limit,
              h_reverse, h_author, h_before, h_after, traverse, repository, h_pc,
              file_info, use_line_number, before_date, after_date, commits,
              output, gr_calls>>
relVars == <<rl_repo, rl_file_path, rl_pc, rl_commits, rl_idx, file_changes,
             commit_info, rl_output>>
travVars == <<tv_commits, tv_file_path, tv_index, tv_pc, tv_log>>
blameVars == <<blame_answer, bl_line_number, bl_pc, blame_item, bl_commit,
               bl_raised, bl_output>>
pinVars == <<ps_file, ps_cache, ps_returned, ps_before, ps_expected,
             ps_preserved, ps_calls>>
cmdVars == <<cm_in_repo, cm_file, cm_log>>
extVars == <<relVars, travVars, blameVars, pinVars, cmdVars>>
vars == <<parserVars, traceVars, revVars, histVars, extVars>>

\* ------------------------------------------------------------------ bounds
MaxDiffLen == 4   \* longest diff body drawn for the parser
MaxLine == 3      \* largest tracked line number drawn
MaxCommits == 3   \* number of commits in a drawn commit graph
MaxAuthorLen == 2 \* longest author string drawn for the author filter
MaxRevs == 2      \* longest commit list drawn for the filters
TicksPerDay == 2  \* instants told apart within one day
MaxLimit == 3     \* largest --limit drawn
MaxHistory == 2   \* longest file history drawn for the related-files ranking
MaxBlame == 2     \* most entries of a blame answer
MaxCalls == 3     \* most pin store calls made in one process
MaxRuns == 3      \* most commands run one after the other
MaxInputs == 5    \* most answers given to the prompt of traverse_commits

\* ------------------------------------------------------------ Python values
None == <<>>
Some(x) == <<x>>

\* str.startswith(prefix) for a one-character prefix
startswith(s, c) == Len(s) > 0 /\ s[1] = c

\* All sequences over S of length at most n
RECURSIVE SeqsUpTo(_, _)
SeqsUpTo(S, n) ==
    IF n = 0 THEN {<<>>}
    ELSE LET shorter == SeqsUpTo(S, n - 1)
         IN  shorter \cup {Append(s, x) : s \in {t \in shorter : Len(t) = n - 1}, x \in S}

\* ------------------------------------------------- check_line_in_diff
\* The diff lines the parser is fed: an added line, a removed line, a context
\* line, a hunk header, the "\ No newline at end of file" marker, an empty line.
DiffLineKinds ==
    { <<"+">>, <<"-">>, <<" ">>, <<"@", "@">>, <<"\\">>, <<>> }

\* The locals of check_line_in_diff before the loop: line_offset = 0.
ParserStart(ln) == [line_offset |-> 0, line_number |-> ln, returned |-> FALSE]

\* Faulty variant: the alignment test is made before the decrement of line_offset.
ParserStepTestBeforeDecrement(st, line) ==
    IF startswith(line, "+") THEN [st EXCEPT !.line_offset = @ + 1]
    ELSE IF startswith(line, "-") THEN
        [st EXCEPT !.line_offset = @ - 1,
                   !.returned = (st.line_offset + st.line_number = 0)]
    ELSE IF ~startswith(line, "@") THEN
        IF st.line_offset < 0 THEN [st EXCEPT !.line_number = @ + 1]
        ELSE IF st.line_offset > 0 THEN [st EXCEPT !.line_number = @ - 1]
        ELSE st
    ELSE st

\* Faulty variant: a hunk header resets the running offset, as a parser that
\* treats every hunk on its own would.
ParserStepResetAtHeader(st, line) ==
    IF startswith(line, "+") THEN [st EXCEPT !.line_offset = @ + 1]
    ELSE IF startswith(line, "-") THEN
        LET off == st.line_offset - 1
        IN  [st EXCEPT !.line_offset = off,
                       !.returned = (off + st.line_number = 0)]
    ELSE IF ~startswith(line, "@") THEN
        IF st.line_offset < 0 THEN [st EXCEPT !.line_number = @ + 1]
        ELSE IF st.line_offset > 0 THEN [st EXCEPT !.line_number = @ - 1]
        ELSE st
    ELSE [st EXCEPT !.line_offset = 0]

\* One iteration of the for loop (lines 153-164); returned = TRUE is the
\* "return True" of line 159.
ParserStep(st, line) ==
    IF startswith(line, "+") THEN [st EXCEPT !.line_offset = @ + 1]
    ELSE IF startswith(line, "-") THEN
        LET off == st.line_offset - 1
        IN  [st EXCEPT !.line_offset = off,
                       !.returned = (off + st.line_number = 0)]
    ELSE IF ~startswith(line, "@") THEN
        IF st.line_offset < 0 THEN [st EXCEPT !.line_number = @ + 1]
        ELSE IF st.line_offset > 0 THEN [st EXCEPT !.line_number = @ - 1]
        ELSE st
    ELSE st

\* The whole call: the loop stops at the first "return True", otherwise runs to
\* the end of the diff and returns False.  The result keeps the final value of
\* the local line_number, which the Python function drops on return.
RECURSIVE ParserRun(_, _, _)
ParserRun(st, lines, i) ==
    IF st.returned \/ i > Len(lines) THEN st
    ELSE ParserRun(ParserStep(st, lines[i]), lines, i + 1)

check_line_in_diff(lines, ln) == ParserRun(ParserStart(ln), lines, 1)

\* ---- the same call as a state machine
ParserInit ==
    /\ diff_lines \in SeqsUpTo(DiffLineKinds, MaxDiffLen)
    /\ cl_line_number \in 1..MaxLine
    /\ line_idx = 1
    /\ line_offset = 0
    /\ cur_line = cl_line_number
    /\ cl_pc = "loop"
    /\ cl_result = FALSE
    /\ cl_hist = <<>>

ParserLocals == [line_offset |-> line_offset, line_number |-> cur_line, returned |-> FALSE]

ParserTake(kind) ==
    /\ cl_pc = "loop"
    /\ line_idx <= Len(diff_lines)
    /\ kind
    /\ LET st == ParserStep(ParserLocals, diff_lines[line_idx])
       IN  /\ line_offset' = st.line_offset
           /\ cur_line' = st.line_number
           /\ cl_result' = st.returned
           /\ cl_pc' = IF st.returned THEN "done" ELSE "loop"
    /\ line_idx' = line_idx + 1
    /\ cl_hist' = Append(cl_hist, [line |-> diff_lines[line_idx],
                                    line_offset |-> line_offset,
                                    line_number |-> cur_line])
    /\ UNCHANGED <<diff_lines, cl_line_number>>

ParseAdded == ParserTake(startswith(diff_lines[line_idx], "+"))
ParseRemoved == ParserTake(startswith(diff_lines[line_idx], "-"))
ParseHeader == ParserTake(startswith(diff_lines[line_idx], "@"))
ParseContext ==
    ParserTake(/\ ~startswith(diff_lines[line_idx], "+")
               /\ ~startswith(diff_lines[line_idx], "-")
               /\ ~startswith(diff_lines[line_idx], "@"))

\* The loop is exhausted: "return False" (line 165).
ParseEnd ==
    /\ cl_pc = "loop"
    /\ line_idx > Len(diff_lines)
    /\ cl_pc' = "done"
    /\ cl_result' = FALSE
    /\ UNCHANGED <<diff_lines, cl_line_number, line_idx, line_offset, cur_line, cl_hist>>

ParserNext == ParseAdded \/ ParseRemoved \/ ParseHeader \/ ParseContext \/ ParseEnd

ParserIdle ==
    /\ diff_lines = <<>>
    /\ cl_line_number = 0
    /\ line_idx = 0
    /\ line_offset = 0
    /\ cur_line = 0
    /\ cl_pc = "idle"
    /\ cl_result = FALSE
    /\ cl_hist = <<>>

\* ------------------------------------------------- trace_line_history
\* The path whose history is traced, and another path of the repository.
file_path == <<"a">>
other_path == <<"b">>

\* The scenario's file a.txt at its three commits, one string per line:
\*   C0 (root)  L1 L2 L3
\*   C1         X L1 L2 L3      (one line inserted at the top)
\*   C2         X L1 L2' L3     (the original line 2 edited)
ScenarioFileC0 == << <<"L", "1">>, <<"L", "2">>, <<"L", "3">> >>
ScenarioFileC1 == << <<"X">>, <<"L", "1">>, <<"L", "2">>, <<"L", "3">> >>
ScenarioFileC2 == << <<"X">>, <<"L", "1">>, <<"L", "2", "'">>, <<"L", "3">> >>

\* The patch git prints for `commit.diff(parent_commit, create_patch=True)`:
\* it compares the commit (side a) with its parent (side b), so the lines the
\* commit wrote are the "-" lines and the lines it replaced are the "+" lines.
ScenarioPatchC2 ==
    << <<"@", "@">>, <<" ", "X">>, <<" ", "L", "1">>, <<"-", "L", "2", "'">>,
       <<"+", "L", "2">>, <<" ", "L", "3">> >>
ScenarioPatchC1 ==
    << <<"@", "@">>, <<"-", "X">>, <<" ", "L", "1">>, <<" ", "L", "2">>,
       <<" ", "L", "3">> >>

\* One side of a one-hunk patch that spans the whole file: its lines without
\* the hunk header and without the lines marked `skip`, markers removed.
PatchSide(patch, skip) ==
    LET kept == SelectSeq(patch, LAMBDA l : ~startswith(l, "@") /\ ~startswith(l, skip))
    IN  [i \in 1..Len(kept) |-> Tail(kept[i])]

\* The patch turns file a into file b.
PatchTurns(patch, a, b) == PatchSide(patch, "+") = a /\ PatchSide(patch, "-") = b

\* A Diff object of the DiffIndex: its a_path and its patch lines.
Diff(path, lines) == [a_path |-> path, lines |-> lines]

\* The DiffIndex values drawn for commit.diff(parent, paths=file_path).
DiffIndexPool ==
    { <<>>,
      <<Diff(file_path, ScenarioPatchC2)>>,
      <<Diff(file_path, ScenarioPatchC1)>>,
      <<Diff(other_path, ScenarioPatchC1), Diff(file_path, << <<"@", "@">>, <<"-">>, <<"+">> >>)>> }

\* The parents a commit c may have: none (a root), one, or two (a merge), each
\* an older commit.
ParentsOf(c) ==
    {<<>>} \cup {<<p>> : p \in 1..(c - 1)}
           \cup {pq \in (1..(c - 1)) \X (1..(c - 1)) : pq[1] # pq[2]}

CommitRecords(c) ==
    {[parents |-> ps, diffs |-> d] :
        ps \in ParentsOf(c), d \in DiffIndexPool} \ 
    {[parents |-> <<>>, diffs |-> d] : d \in DiffIndexPool \ {<<>>}}

RECURSIVE Histories(_)
Histories(n) ==
    IF n = 0 THEN {<<>>}
    ELSE {Append(h, r) : h \in Histories(n - 1), r \in CommitRecords(n)}

\* line_modified (lines 142-147): the first diff whose a_path is the file
\* decides; no such diff means False.  The result records whether the parser
\* was called and what it returned.
RECURSIVE FirstDiffFor(_, _, _)
FirstDiffFor(diffs, path, i) ==
    IF i > Len(diffs) THEN None
    ELSE IF diffs[i].a_path = path THEN Some(diffs[i])
    ELSE FirstDiffFor(diffs, path, i + 1)

line_modified(diffs, path, ln) ==
    LET d == FirstDiffFor(diffs, path, 1)
    IN  IF d = None THEN [called |-> FALSE, modified |-> FALSE, line_in |-> ln, line_out |-> ln]
        ELSE LET st == check_line_in_diff(d[1].lines, ln)
             IN  [called |-> TRUE, modified |-> st.returned,
                  line_in |-> ln, line_out |-> st.line_number]

TraceInit ==
    /\ repo \in Histories(MaxCommits)
    /\ initial_commit \in 1..MaxCommits
    /\ line_number \in 1..MaxLine
    /\ current_commit = initial_commit
    /\ revisions = <<>>
    /\ tr_pc = "loop"
    /\ tr_calls = <<>>
    /\ tr_steps = 0

\* Faulty variant: the loop ends at a root commit without appending it.
TraceRootNotAppended ==
    /\ tr_pc = "loop"
    /\ tr_steps' = tr_steps + 1
    /\ repo[current_commit].parents = <<>>
    /\ tr_pc' = "done"
    /\ UNCHANGED <<repo, initial_commit, line_number, current_commit, revisions, tr_calls>>

\* Lines 132-134: a commit without parents is appended and the loop ends.
TraceRoot ==
    /\ tr_pc = "loop"
    /\ tr_steps' = tr_steps + 1
    /\ repo[current_commit].parents = <<>>
    /\ revisions' = Append(revisions, current_commit)
    /\ tr_pc' = "done"
    /\ UNCHANGED <<repo, initial_commit, line_number, current_commit, tr_calls>>

\* Faulty variant: the loop moves to the last parent of a merge instead of the first.
TraceDescendLastParent ==
    /\ tr_pc = "loop"
    /\ tr_steps' = tr_steps + 1
    /\ repo[current_commit].parents # <<>>
    /\ LET parent_commit == repo[current_commit].parents[Len(repo[current_commit].parents)]
           r == line_modified(repo[current_commit].diffs, file_path, line_number)
       IN  /\ revisions' = IF r.modified THEN Append(revisions, current_commit)
                           ELSE revisions
           /\ tr_calls' = IF r.called
                          THEN Append(tr_calls, [commit |-> current_commit,
                                                 line_in |-> r.line_in,
                                                 line_out |-> r.line_out,
                                                 modified |-> r.modified])
                          ELSE tr_calls
           /\ current_commit' = parent_commit
    /\ UNCHANGED <<repo, initial_commit, line_number, tr_pc>>

\* Lines 135-138: the commit is compared with its first parent, appended when
\* line_modified says so, and the loop moves to that parent.  line_number is
\* the function's parameter: the call passes its value and nothing rebinds it.
TraceDescend ==
    /\ tr_pc = "loop"
    /\ tr_steps' = tr_steps + 1
    /\ repo[current_commit].parents # <<>>
    /\ LET parent_commit == repo[current_commit].parents[1]
           r == line_modified(repo[current_commit].diffs, file_path, line_number)
       IN  /\ revisions' = IF r.modified THEN Append(revisions, current_commit)
                           ELSE revisions
           /\ tr_calls' = IF r.called
                          THEN Append(tr_calls, [commit |-> current_commit,
                                                 line_in |-> r.line_in,
                                                 line_out |-> r.line_out,
                                                 modified |-> r.modified])
                          ELSE tr_calls
           /\ current_commit' = parent_commit
    /\ UNCHANGED <<repo, initial_commit, line_number, tr_pc>>

TraceNext == TraceRoot \/ TraceDescend

TraceIdle ==
    /\ repo = <<>>
    /\ initial_commit = 0
    /\ line_number = 0
    /\ current_commit = 0
    /\ revisions = <<>>
    /\ tr_pc = "idle"
    /\ tr_calls = <<>>
    /\ tr_steps = 0

\* ------------------------------------------------- strings and dates
Chars == {"a", "A", "b"}

\* str.lower()
LowerChar(c) == IF c = "A" THEN "a" ELSE c
lower(s) == [i \in 1..Len(s) |-> LowerChar(s[i])]

\* Python's `sub in s` for strings
Contains(sub, s) ==
    \E i \in 0..(Len(s) - Len(sub)) : SubSeq(s, i + 1, i + Len(sub)) = sub

\* Truthiness of an Optional[str]: None and "" are false.
TruthyStr(o) == o # None /\ o[1] # <<>>

\* A calendar date and the number of days from 2022-01-01 to it.
Date(y, m, d) == [y |-> y, m |-> m, d |-> d]
DaysInMonth(y, m) ==
    IF m = 2 THEN (IF y % 4 = 0 /\ (y % 100 # 0 \/ y % 400 = 0) THEN 29 ELSE 28)
    ELSE IF m \in {4, 6, 9, 11} THEN 30 ELSE 31
RECURSIVE DaysBeforeMonth(_, _)
DaysBeforeMonth(y, m) ==
    IF m = 1 THEN 0 ELSE DaysBeforeMonth(y, m - 1) + DaysInMonth(y, m - 1)
RECURSIVE DaysBeforeYear(_)
DaysBeforeYear(y) ==
    IF y <= 2022 THEN 0
    ELSE DaysBeforeYear(y - 1) + DaysBeforeMonth(y - 1, 12) + DaysInMonth(y - 1, 12)
Ordinal(date) == DaysBeforeYear(date.y) + DaysBeforeMonth(date.y, date.m) + date.d - 1

\* A timezone-aware datetime as an instant: ticks since 2022-01-01T00:00 UTC.
\* Midnight(date) is datetime(y, m, d, tzinfo=timezone.utc).
Midnight(date) == Ordinal(date) * TicksPerDay
Instant(date, tick) == Midnight(date) + tick

\* ------------------------------------------------- the revision filters
Actor(name, email) == [name |-> name, email |-> email]
Commit(author, committed) == [author |-> author, committed_datetime |-> committed]

\* Faulty variant: the author's name and email are compared without lower-casing them.
filter_by_author_case_sensitive(revs, author) ==
    SelectSeq(revs, LAMBDA commit :
        \/ Contains(lower(author),
                    IF TruthyStr(commit.author.name) THEN commit.author.name[1] ELSE <<>>)
        \/ Contains(lower(author),
                    IF TruthyStr(commit.author.email) THEN commit.author.email[1] ELSE <<>>))

\* filter_by_author (lines 168-174)
filter_by_author(revs, author) ==
    SelectSeq(revs, LAMBDA commit :
        \/ Contains(lower(author),
                    IF TruthyStr(commit.author.name) THEN lower(commit.author.name[1]) ELSE <<>>)
        \/ Contains(lower(author),
                    IF TruthyStr(commit.author.email) THEN lower(commit.author.email[1]) ELSE <<>>))

\* Faulty variant: the upper bound is exclusive.
filter_by_date_exclusive_before(revs, before, after) ==
    SelectSeq(revs, LAMBDA commit :
        /\ (before = None \/ commit.committed_datetime < before[1])
        /\ (after = None \/ commit.committed_datetime >= after[1]))

\* filter_by_date (lines 177-182); a datetime is always true, so `not before`
\* is `before is None`.
filter_by_date(revs, before, after) ==
    SelectSeq(revs, LAMBDA commit :
        /\ (before = None \/ commit.committed_datetime <= before[1])
        /\ (after = None \/ commit.committed_datetime >= after[1]))

\* filter_revisions (lines 101-108)
filter_revisions(revs, author, before, after) ==
    LET by_author == IF TruthyStr(author) THEN filter_by_author(revs, author[1]) ELSE revs
    IN  IF before # None \/ after # None
        THEN filter_by_date(by_author, before, after)
        ELSE by_author

\* list.reverse()
RECURSIVE reverse(_)
reverse(s) == IF s = <<>> THEN <<>> ELSE Append(reverse(Tail(s)), Head(s))

\* Faulty variant: the reverse flag is ignored.
get_revisions_never_reversed(retrieved, rev, author, before, after) ==
    LET filtered == filter_revisions(retrieved, author, before, after)
    IN  [filtered |-> filtered, result |-> filtered]

\* get_revisions (lines 53-72) from line 67 on: `retrieved` is what lines 62-65
\* got from the repository.
get_revisions(retrieved, rev, author, before, after) ==
    LET filtered == filter_revisions(retrieved, author, before, after)
    IN  [filtered |-> filtered,
         result |-> IF rev THEN reverse(filtered) ELSE filtered]

\* ---- inputs drawn for one get_revisions call
OptStrs(n) == {None} \cup {Some(s) : s \in SeqsUpTo(Chars, n)}

\* Commits that differ in author: names and emails absent, empty, or present
\* in either case.
AuthorCommits ==
    {Commit(Actor(n, e), Midnight(Date(2023, 1, 1))) :
        n \in {None, Some(<<>>), Some(<<"a", "B">>), Some(<<"b">>)},
        e \in {None, Some(<<"A">>), Some(<<"b", "a">>)}}

ScenarioDates ==
    <<Date(2022, 12, 31), Date(2023, 1, 1), Date(2023, 3, 15), Date(2023, 7, 1)>>
ScenarioAfter == Date(2023, 1, 1)
ScenarioBefore == Date(2023, 6, 30)

Ticks == 0..(TicksPerDay - 1)

\* Commits that differ in commit time: every instant of the scenario's days and
\* of its two bound days.
DateCommits ==
    {Commit(Actor(Some(<<"b">>), None), Instant(d, t)) :
        d \in {ScenarioDates[i] : i \in 1..4} \cup {ScenarioBefore}, t \in Ticks}

\* The four commits of the date scenario, each at any instant of its day.
ScenarioRevisions ==
    {[i \in 1..4 |-> Commit(Actor(Some(<<"b">>), None), Instant(ScenarioDates[i], ts[i]))] :
        ts \in [1..4 -> Ticks]}

DateBounds ==
    {None, Some(Midnight(ScenarioAfter)), Some(Midnight(ScenarioBefore)),
     Some(Instant(ScenarioAfter, 1))}

RevInit ==
    /\ \/ /\ gr_retrieved \in SeqsUpTo(AuthorCommits, MaxRevs)
          /\ gr_author \in OptStrs(MaxAuthorLen)
          /\ gr_before = None
          /\ gr_after = None
       \/ /\ gr_retrieved \in SeqsUpTo(DateCommits, MaxRevs) \cup ScenarioRevisions
          /\ gr_author = None
          /\ gr_before \in DateBounds
          /\ gr_after \in DateBounds
       \/ /\ gr_retrieved \in SeqsUpTo({c \in AuthorCommits : c.author.email = None}
                                       \cup {c \in DateCommits : c.committed_datetime % TicksPerDay = 0},
                                       MaxRevs)
          /\ gr_author \in {Some(<<"b">>), Some(<<"A">>)}
          /\ gr_before \in {None, Some(Midnight(ScenarioBefore))}
          /\ gr_after \in {None, Some(Midnight(ScenarioAfter))}
    /\ gr_reverse \in BOOLEAN
    /\ gr_pc = "call"
    /\ gr_filtered = <<>>
    /\ gr_result = <<>>

GetRevisions ==
    /\ gr_pc = "call"
    /\ LET r == get_revisions(gr_retrieved, gr_reverse, gr_author, gr_before, gr_after)
       IN  /\ gr_filtered' = r.filtered
           /\ gr_result' = r.result
    /\ gr_pc' = "done"
    /\ UNCHANGED <<gr_retrieved, gr_reverse, gr_author, gr_before, gr_after>>

RevIdle ==
    /\ gr_retrieved = <<>>
    /\ gr_reverse = FALSE
    /\ gr_author = None
    /\ gr_before = None
    /\ gr_after = None
    /\ gr_pc = "idle"
    /\ gr_filtered = <<>>
    /\ gr_result = <<>>

\* ------------------------------------------------- the history command
\* str.split(sep) for a one-character separator
RECURSIVE SplitFrom(_, _, _, _)
SplitFrom(s, sep, i, part) ==
    IF i > Len(s) THEN <<part>>
    ELSE IF s[i] = sep THEN <<part>> \o SplitFrom(s, sep, i + 1, <<>>)
    ELSE SplitFrom(s, sep, i + 1, Append(part, s[i]))
split(s, sep) == SplitFrom(s, sep, 1, <<>>)

HasChar(s, c) == \E i \in 1..Len(s) : s[i] = c

\* int(s) for the strings drawn here: decimal digits only; anything else (and
\* the empty string) raises ValueError.
DigitValue(c) ==
    CASE c = "0" -> 0 [] c = "1" -> 1 [] c = "2" -> 2 [] c = "3" -> 3 [] c = "4" -> 4
      [] c = "5" -> 5 [] c = "6" -> 6 [] c = "7" -> 7 [] c = "8" -> 8 [] c = "9" -> 9
IsDigit(c) == c \in {"0", "1", "2", "3", "4", "5", "6", "7", "8", "9"}
int_ok(s) == Len(s) > 0 /\ \A i \in 1..Len(s) : IsDigit(s[i])
RECURSIVE int(_)
int(s) == IF s = <<>> THEN 0 ELSE int(SubSeq(s, 1, Len(s) - 1)) * 10 + DigitValue(s[Len(s)])

\* Truthiness of an Optional[int]: None and 0 are false.
TruthyInt(o) == o # None /\ o[1] # 0

\* get_file_info (lines 277-290).  kind is "ok", or the exception raised.
FileInfo(kind, path, line) == [kind |-> kind, file_path |-> path, pinned_line |-> line]
get_file_info(path, pinned) ==
    IF TruthyStr(path) THEN FileInfo("ok", path[1], None)
    ELSE IF ~TruthyStr(pinned) THEN FileInfo("OffalError", <<>>, None)
    ELSE IF HasChar(pinned[1], "#") THEN
        LET parts == split(pinned[1], "#")
        IN  IF Len(parts) # 2 THEN FileInfo("ValueError", <<>>, None)
            ELSE IF ~int_ok(parts[2]) THEN FileInfo("ValueError", <<>>, None)
            ELSE FileInfo("ok", parts[1], Some(int(parts[2])))
    ELSE FileInfo("ok", pinned[1], None)

\* A date option as typed: the empty string, text that is not digits-digits-
\* digits, or a year-month-day triple of digit groups the format's pattern
\* takes (four digits, then one or two, then one or two).
DateText(kind, y, m, d) == [kind |-> kind, y |-> y, m |-> m, d |-> d]
EmptyText == DateText("empty", 0, 0, 0)
OtherText == DateText("text", 0, 0, 0)
Ymd(y, m, d) == DateText("ymd", y, m, d)

\* Truthiness of an Optional[str] date option
TruthyDate(o) == o # None /\ o[1].kind # "empty"

\* Faulty variant: the month and the day are not range-checked.
strptime_ok_unchecked(text) == text.kind = "ymd"

\* datetime.strptime(text, "%Y-%m-%d") succeeds (otherwise ValueError).
strptime_ok(text) ==
    /\ text.kind = "ymd"
    /\ text.m \in 1..12
    /\ text.d \in 1..DaysInMonth(text.y, text.m)

\* datetime.strptime(...).replace(tzinfo=timezone.utc)
strptime(text) == Midnight(Date(text.y, text.m, text.d))

\* Lines 230-231, one option: None when the option is false, else the parsed
\* datetime; ok is FALSE when strptime raises ValueError.
parse_option(o) ==
    IF ~TruthyDate(o) THEN [ok |-> TRUE, value |-> None]
    ELSE IF strptime_ok(o[1]) THEN [ok |-> TRUE, value |-> Some(strptime(o[1]))]
    ELSE [ok |-> FALSE, value |-> None]

\* What the run prints: one record per console.print that matters here.
Msg(kind, list, n, m) == [kind |-> kind, commits |-> list, n |-> n, m |-> m]
Say(kind) == Msg(kind, <<>>, 0, 0)

\* Python's list[:k]: the first k elements, and for a negative k all but the
\* last -k.
slice_to(list, k) ==
    IF k >= 0 THEN SubSeq(list, 1, IF k < Len(list) THEN k ELSE Len(list))
    ELSE SubSeq(list, 1, Len(list) + k)

\* print_commits (lines 185-199)
print_commits(list, ln, rev) ==
    <<Msg("listing", list, 0, 0)>> \o
    (IF TruthyInt(ln) /\ list # <<>>
     THEN IF rev THEN <<Msg("first_introduced", <<list[Len(list)]>>, 0, 0)>>
          ELSE <<Msg("last_modified", <<list[1]>>, 0, 0)>>
     ELSE <<>>)

\* Lines 239-267 of history, after get_revisions returned.
report(list) ==
    IF TruthyStr(h_author) /\ list = <<>> THEN <<Say("no_commits_for_author")>>
    ELSE
        (IF TruthyDate(h_before) \/ TruthyDate(h_after) THEN <<Say("showing_dates")>> ELSE <<>>) \o
        (IF list = <<>> THEN <<Say("no_commits")>>
         ELSE IF traverse THEN <<Msg("traverse", list, 0, 0)>>
         ELSE print_commits(slice_to(list, limit), use_line_number, h_reverse) \o
              (IF Len(list) > limit THEN <<Msg("showing_of", <<>>, limit, Len(list))>>
               ELSE <<>>) \o
              (IF /\ TruthyInt(file_info.pinned_line)
                  /\ ~TruthyInt(use_line_number)
                  /\ ~ignore_line_number
               THEN <<Say("pinned_note")>> ELSE <<>>))

\* ---- inputs drawn for one run
HistCommits ==
    << Commit(Actor(Some(<<"a", "B">>), None), Instant(Date(2023, 7, 1), 0)),
       Commit(Actor(Some(<<"b">>), Some(<<"b">>)), Instant(Date(2023, 3, 15), 1)),
       Commit(Actor(Some(<<"a">>), None), Instant(Date(2023, 1, 1), 0)) >>

\* The repository's answers: file_log to iter_commits(paths=file_path), line_log
\* to `git log -L`, newest first; kind "no_such_path" is a GitCommandError whose
\* text says so.
Repository(kind, file_log, line_log) ==
    [kind |-> kind, file_log |-> file_log, line_log |-> line_log]
Repositories ==
    { Repository("ok", HistCommits, <<HistCommits[1], HistCommits[3]>>),
      Repository("ok", <<HistCommits[2]>>, <<HistCommits[2]>>),
      Repository("no_such_path", <<>>, <<>>) }

PinnedItems ==
    { None,
      Some(<<"f">>),
      Some(<<"f", "#", "2">>),
      Some(<<"f", "#", "0">>),
      Some(<<"f", "#", "x">>),
      Some(<<"f", "#", "2", "#", "2">>) }

BeforeOptions ==
    { None, Some(EmptyText), Some(OtherText), Some(Ymd(2023, 6, 30)),
      Some(Ymd(2023, 13, 1)), Some(Ymd(2023, 2, 30)) }
AfterOptions ==
    { None, Some(Ymd(2023, 1, 1)), Some(Ymd(2023, 4, 31)) }

HistInit ==
    /\ \/ h_file_path = Some(<<"f">>) /\ pinned_item = None
       \/ h_file_path = None /\ pinned_item \in PinnedItems
    /\ \/ h_line_number = None /\ ignore_line_number \in BOOLEAN
       \/ h_line_number = Some(2) /\ ignore_line_number = FALSE
    /\ limit \in (0 - 1)..MaxLimit
    /\ h_reverse \in BOOLEAN
    /\ h_author \in {None, Some(<<>>), Some(<<"A">>)}
    /\ h_before \in BeforeOptions
    /\ h_after \in AfterOptions
    /\ traverse \in BOOLEAN
    /\ repository \in Repositories
    /\ h_pc = "file_info"
    /\ file_info = FileInfo("none", <<>>, None)
    /\ use_line_number = None
    /\ before_date = None
    /\ after_date = None
    /\ commits = <<>>
    /\ output = <<>>
    /\ gr_calls = 0

HistInputs == <<h_file_path, pinned_item, h_line_number, ignore_line_number, limit,
                h_reverse, h_author, h_before, h_after, traverse, repository>>

\* Lines 226-227, and lines 269-274 when get_file_info raises.
HistFileInfo ==
    /\ h_pc = "file_info"
    /\ LET r == get_file_info(h_file_path, pinned_item)
       IN  /\ file_info' = r
           /\ IF r.kind = "ok"
              THEN /\ use_line_number' =
                        IF TruthyInt(h_line_number) THEN h_line_number
                        ELSE IF ignore_line_number THEN None ELSE r.pinned_line
                   /\ output' = output
                   /\ h_pc' = "dates"
              ELSE /\ use_line_number' = use_line_number
                   /\ output' = Append(output,
                          IF r.kind = "OffalError" THEN Say("error_no_file_pinned")
                          ELSE Say("unexpected_error"))
                   /\ h_pc' = "done"
    /\ UNCHANGED <<HistInputs, before_date, after_date, commits, gr_calls>>

\* Lines 229-234: both options are parsed, before first; a ValueError prints
\* the date-format error and the command returns.
HistParseDates ==
    /\ h_pc = "dates"
    /\ LET b == parse_option(h_before)
           a == parse_option(h_after)
       IN  IF b.ok /\ a.ok
           THEN /\ before_date' = b.value
                /\ after_date' = a.value
                /\ output' = output
                /\ h_pc' = "revisions"
           ELSE /\ UNCHANGED <<before_date, after_date>>
                /\ output' = Append(output, Say("date_format_error"))
                /\ h_pc' = "done"
    /\ UNCHANGED <<HistInputs, file_info, use_line_number, commits, gr_calls>>

\* Lines 236-237: get_revisions is called; lines 62-65 pick the log query by
\* the truth of line_number; a FileNotFoundError is an OffalError (line 269).
HistGetRevisions ==
    /\ h_pc = "revisions"
    /\ gr_calls' = gr_calls + 1
    /\ IF repository.kind = "ok"
       THEN /\ commits' = get_revisions(
                    IF TruthyInt(use_line_number) THEN repository.line_log
                    ELSE repository.file_log,
                    h_reverse, h_author, before_date, after_date).result
            /\ output' = output
            /\ h_pc' = "report"
       ELSE /\ commits' = commits
            /\ output' = Append(output, Say("error_file_not_found"))
            /\ h_pc' = "done"
    /\ UNCHANGED <<HistInputs, file_info, use_line_number, before_date, after_date>>

\* Lines 239-267.
HistReport ==
    /\ h_pc = "report"
    /\ output' = output \o report(commits)
    /\ h_pc' = "done"
    /\ UNCHANGED <<HistInputs, file_info, use_line_number, before_date, after_date,
                   commits, gr_calls>>

HistIdle ==
    /\ h_file_path = None
    /\ pinned_item = None
    /\ h_line_number = None
    /\ ignore_line_number = FALSE
    /\ limit = 0
    /\ h_reverse = FALSE
    /\ h_author = None
    /\ h_before = None
    /\ h_after = None
    /\ traverse = FALSE
    /\ repository = Repository("none", <<>>, <<>>)
    /\ h_pc = "idle"
    /\ file_info = FileInfo("none", <<>>, None)
    /\ use_line_number = None
    /\ before_date = None
    /\ after_date = None
    /\ commits = <<>>
    /\ output = <<>>
    /\ gr_calls = 0

\* ------------------------------------------- show_related_files (related.py)
\* Character codes of the characters paths are made of here (ord()).
CharCode(c) ==
    CASE c = "." -> 46 [] c = "a" -> 97 [] c = "b" -> 98 [] c = "c" -> 99
      [] c = "t" -> 116 [] c = "x" -> 120

\* Python's str < str: lexicographic on the characters, a proper prefix first.
RECURSIVE StrLess(_, _)
StrLess(s, t) ==
    IF t = <<>> THEN FALSE
    ELSE IF s = <<>> THEN TRUE
    ELSE IF s[1] # t[1] THEN CharCode(s[1]) < CharCode(t[1])
    ELSE StrLess(Tail(s), Tail(t))

Txt(stem) == stem \o <<".", "t", "x", "t">>
a_txt == Txt(<<"a">>)
b_txt == Txt(<<"b">>)
c_txt == Txt(<<"c">>)
ab_txt == Txt(<<"a", "b">>)

\* A commit as the ranking reads it: parents, the blobs of commit.tree in
\* traversal order, the keys of commit.stats.files in their order.
RelCommit(parents, tree, stats) == [parents |-> parents, tree |-> tree, stats |-> stats]

\* get_changed_files (related.py lines 126-130)
get_changed_files(commit) ==
    IF commit.parents = <<>> THEN commit.tree ELSE commit.stats

\* A Counter is kept as its items in insertion order: <<[file, count], ...>>.
CounterGet(counter, file) ==
    IF \E i \in 1..Len(counter) : counter[i].file = file
    THEN (CHOOSE e \in {counter[i] : i \in 1..Len(counter)} : e.file = file).count
    ELSE 0

CounterIncrement(counter, file) ==
    IF \E i \in 1..Len(counter) : counter[i].file = file
    THEN [i \in 1..Len(counter) |->
            IF counter[i].file = file
            THEN [counter[i] EXCEPT !.count = @ + 1] ELSE counter[i]]
    ELSE Append(counter, [file |-> file, count |-> 1])

\* Counter.update(iterable): one increment per element, in order.
RECURSIVE CounterUpdate(_, _)
CounterUpdate(counter, files) ==
    IF files = <<>> THEN counter
    ELSE CounterUpdate(CounterIncrement(counter, Head(files)), Tail(files))

\* sorted(..., key=count, reverse=True) is stable: an item goes behind every
\* item already placed whose count is not smaller.
RECURSIVE InsertByCount(_, _)
InsertByCount(sorted, e) ==
    IF sorted = <<>> THEN <<e>>
    ELSE IF Head(sorted).count >= e.count
         THEN <<Head(sorted)>> \o InsertByCount(Tail(sorted), e)
         ELSE <<e>> \o sorted

\* Counter.most_common(): items by descending count, ties in insertion order.
RECURSIVE most_common(_)
most_common(counter) ==
    IF counter = <<>> THEN <<>>
    ELSE InsertByCount(most_common(SubSeq(counter, 1, Len(counter) - 1)),
                       counter[Len(counter)])

\* ---- inputs drawn for one call
\* The file lists of a commit that touches a.txt, in path order and not.
RelFileLists ==
    { <<a_txt>>, <<a_txt, b_txt>>, <<a_txt, c_txt>>, <<a_txt, b_txt, c_txt>>,
      <<a_txt, ab_txt>>, <<c_txt, a_txt>> }

\* Every file the working tree of a commit with a parent holds.
RelFullTree == <<a_txt, ab_txt, b_txt, c_txt>>

\* The histories of a.txt, newest first; only the oldest commit may be a root,
\* and a root's stats list every file of its tree.
RelHistories ==
    UNION { { [i \in 1..n |->
                 IF i = n /\ root THEN RelCommit(<<>>, h[i], h[i])
                 ELSE RelCommit(<<0>>, RelFullTree, h[i])] :
              h \in [1..n -> RelFileLists], root \in BOOLEAN }
            : n \in 0..MaxHistory }

RelInit ==
    /\ rl_repo \in {[kind |-> "ok", log |-> h] : h \in RelHistories}
                   \cup {[kind |-> "GitCommandError", log |-> <<>>]}
    /\ rl_file_path = a_txt
    /\ rl_pc = "start"
    /\ rl_commits = <<>>
    /\ rl_idx = 1
    /\ file_changes = <<>>
    /\ commit_info = <<>>
    /\ rl_output = <<>>

\* Lines 32-39; an exception of iter_commits is caught at line 94.
RelStart ==
    /\ rl_pc = "start"
    /\ IF rl_repo.kind # "ok"
       THEN /\ rl_output' = Append(rl_output, [kind |-> "error", rows |-> <<>>])
            /\ rl_pc' = "done"
            /\ rl_commits' = rl_commits
       ELSE /\ rl_commits' = rl_repo.log
            /\ IF rl_repo.log = <<>>
               THEN /\ rl_output' = Append(rl_output, [kind |-> "no_history", rows |-> <<>>])
                    /\ rl_pc' = "done"
               ELSE /\ rl_output' = rl_output
                    /\ rl_pc' = "loop"
    /\ UNCHANGED <<rl_repo, rl_file_path, rl_idx, file_changes, commit_info>>

\* One iteration of the loop of lines 41-59 (line_number is None: the
\* "modified_line" entry, which only the detail table shows, is "N/A").
RelCount ==
    /\ rl_pc = "loop"
    /\ rl_idx <= Len(rl_commits)
    /\ LET changed_files == get_changed_files(rl_commits[rl_idx])
       IN  /\ file_changes' = CounterUpdate(file_changes, changed_files)
           /\ commit_info' = Append(commit_info, changed_files)
    /\ rl_idx' = rl_idx + 1
    /\ rl_pc' = IF rl_idx = Len(rl_commits) THEN "summary" ELSE "loop"
    /\ UNCHANGED <<rl_repo, rl_file_path, rl_commits, rl_output>>

\* Lines 62-69: the summary table, one row per item of most_common().
RelSummary ==
    /\ rl_pc = "summary"
    /\ rl_output' = Append(rl_output, [kind |-> "summary", rows |-> most_common(file_changes)])
    /\ rl_pc' = "detail"
    /\ UNCHANGED <<rl_repo, rl_file_path, rl_commits, rl_idx, file_changes, commit_info>>

\* Lines 72-92: the detail table, oldest commit first.
RelDetail ==
    /\ rl_pc = "detail"
    /\ rl_output' = Append(rl_output, [kind |-> "detail", rows |-> reverse(commit_info)])
    /\ rl_pc' = "done"
    /\ UNCHANGED <<rl_repo, rl_file_path, rl_commits, rl_idx, file_changes, commit_info>>

RelIdle ==
    /\ rl_repo = [kind |-> "none", log |-> <<>>]
    /\ rl_file_path = <<>>
    /\ rl_pc = "idle"
    /\ rl_commits = <<>>
    /\ rl_idx = 0
    /\ file_changes = <<>>
    /\ commit_info = <<>>
    /\ rl_output = <<>>

\* ------------------------------------------------------ traverse_commits
\* The default of the parameter limit of get_files_changed.
FilesLimit == 10

\* The sort key (-x[1], x[0]) of line 461; the target's count is float('inf').
FilesBefore(e, f) ==
    IF e.inf # f.inf THEN e.inf
    ELSE IF e.count # f.count THEN e.count > f.count
    ELSE StrLess(e.file, f.file)

\* list.sort with that key, on entries with distinct files.
RECURSIVE FilesSort(_)
FilesSort(entries) ==
    IF entries = {} THEN <<>>
    ELSE LET first == CHOOSE e \in entries : \A f \in entries \ {e} : FilesBefore(e, f)
         IN  <<first>> \o FilesSort(entries \ {first})

\* Lines 442-446: the stats of every commit of the target's log are counted,
\* the target itself left out.
RECURSIVE CountCoOccurrences(_, _, _)
CountCoOccurrences(counter, history, target_file) ==
    IF history = <<>> THEN counter
    ELSE CountCoOccurrences(
             CounterUpdate(counter, SelectSeq(Head(history).stats,
                                              LAMBDA file : file # target_file)),
             Tail(history), target_file)

\* get_files_changed (lines 433-465) for a commit of the history `log` of the
\* target: one entry per line of the returned text.
get_files_changed(commit, target_file, log) ==
    LET file_co_occurrences == CountCoOccurrences(<<>>, log, target_file)
        current_commit_files == {commit.stats[i] : i \in 1..Len(commit.stats)}
        out == { IF file = target_file
                 THEN [file |-> file, inf |-> TRUE, count |-> 0]
                 ELSE [file |-> file, inf |-> FALSE,
                       count |-> CounterGet(file_co_occurrences, file)] :
                 file \in current_commit_files }
        sorted == FilesSort(out)
    IN  SubSeq(sorted, 1, IF FilesLimit < Len(sorted) THEN FilesLimit ELSE Len(sorted))

\* What the user answers to Prompt.ask: the four keys and anything else.
UserInputs == {"q", "c", "b", "d", "x"}

\* The commit lists handed to traverse_commits: histories of a.txt.
TravFileLists == { <<a_txt>>, <<a_txt, b_txt>>, <<a_txt, b_txt, c_txt>> }
TravHistories ==
    UNION { { [i \in 1..n |->
                 IF i = n /\ root THEN RelCommit(<<>>, h[i], h[i])
                 ELSE RelCommit(<<0>>, RelFullTree, h[i])] :
              h \in [1..n -> TravFileLists], root \in BOOLEAN }
            : n \in 0..MaxHistory }

\* Line 294, and the first test of the while condition (line 295).
TravInit ==
    /\ tv_commits \in TravHistories
    /\ tv_file_path = a_txt
    /\ tv_index = 0
    /\ tv_pc = IF 0 < Len(tv_commits) THEN "loop" ELSE "done"
    /\ tv_log = <<>>

\* One iteration of the while loop (lines 296-309) in which the user answers
\* `user_input`, followed by the next test of the while condition.
TraverseStep(user_input, next_index) ==
    /\ tv_pc = "loop"
    /\ Len(tv_log) < MaxInputs
    /\ LET commit == tv_commits[tv_index + 1]
       IN  tv_log' = Append(tv_log,
               [index |-> tv_index,
                files_changed |-> get_files_changed(commit, tv_file_path, tv_commits),
                user_input |-> user_input,
                index_after |-> next_index])
    /\ tv_index' = next_index
    /\ tv_pc' = IF user_input = "q" \/ ~(next_index < Len(tv_commits))
                THEN "done" ELSE "loop"
    /\ UNCHANGED <<tv_commits, tv_file_path>>

\* Faulty variant: 'b' goes back also at index 0.
TraverseBackUnguarded == TraverseStep("b", tv_index - 1)

TraverseQuit == TraverseStep("q", tv_index)
TraverseContinue == TraverseStep("c", tv_index + 1)
TraverseBack == TraverseStep("b", IF tv_index > 0 THEN tv_index - 1 ELSE tv_index)
TraverseDiff == TraverseStep("d", tv_index)
TraverseOther == \E user_input \in UserInputs \ {"q", "c", "b", "d"} :
                     TraverseStep(user_input, tv_index)

TravIdle ==
    /\ tv_commits = <<>>
    /\ tv_file_path = <<>>
    /\ tv_index = 0
    /\ tv_pc = "idle"
    /\ tv_log = <<>>

\* ---------------------------------------------------- the blame lookup
\* The exception classes of history.py (lines 33-42) and the built-in and
\* GitPython classes raised on this path, each with its base class.
BaseOf(class) ==
    CASE class = "FileNotFoundError" -> "OffalError"
      [] class = "NoCommitHistoryError" -> "OffalError"
      [] class = "OffalError" -> "Exception"
      [] class = "ValueError" -> "Exception"
      [] class = "TypeError" -> "Exception"
      [] class = "GitCommandError" -> "Exception"
      [] OTHER -> "BaseException"

\* isinstance(e, OffalError)
IsOffalError(class) == class = "OffalError" \/ BaseOf(class) = "OffalError"

\* The except clauses of the history command (lines 269-274): which message
\* the command prints for an exception raised under its try.
boundary(class) ==
    IF IsOffalError(class) THEN "error" ELSE "unexpected_error"

\* Values a blame answer is made of.
CommitValue(hexsha) == [type |-> "Commit", hexsha |-> hexsha]
StrValue == [type |-> "str", hexsha |-> 0]
NoneValue == [type |-> "NoneType", hexsha |-> 0]

\* An entry of a blame answer: a list (GitPython answers [commit, lines]
\* lists) or an object with or without a commit attribute.
ListEntry(items) == [shape |-> "list", items |-> items, commit |-> NoneValue]
ObjectEntry(commit) == [shape |-> "object", items |-> <<>>, commit |-> commit]
BlameEntries ==
    { ListEntry(<<CommitValue(1), StrValue>>), ListEntry(<<CommitValue(2), StrValue>>),
      ListEntry(<<>>), ListEntry(<<StrValue>>),
      ObjectEntry(CommitValue(1)), ObjectEntry(NoneValue) }

\* get_blame_item (lines 111-115)
get_blame_item(answer) ==
    IF answer.kind # "ok" THEN [raised |-> Some(answer.kind), item |-> None]
    ELSE IF answer.entries = <<>> THEN [raised |-> Some("ValueError"), item |-> None]
    ELSE [raised |-> None, item |-> Some(answer.entries[1])]

\* extract_commit_from_blame (lines 118-125)
extract_commit_from_blame(item) ==
    LET commit == IF item.shape = "list" /\ Len(item.items) >= 1
                  THEN item.items[1] ELSE item.commit
    IN  IF commit.type # "Commit" THEN [raised |-> Some("TypeError"), commit |-> None]
        ELSE [raised |-> None, commit |-> Some(commit)]

BlameInit ==
    /\ blame_answer \in
           {[kind |-> "ok", entries |-> e] : e \in SeqsUpTo(BlameEntries, MaxBlame)}
           \cup {[kind |-> "GitCommandError", entries |-> <<>>]}
    /\ bl_line_number \in 1..MaxLine
    /\ bl_pc = "blame"
    /\ blame_item = None
    /\ bl_commit = None
    /\ bl_raised = None
    /\ bl_output = <<>>

\* The call of get_blame_item.
BlameItem ==
    /\ bl_pc = "blame"
    /\ LET r == get_blame_item(blame_answer)
       IN  /\ blame_item' = r.item
           /\ bl_raised' = r.raised
           /\ bl_pc' = IF r.raised = None THEN "extract" ELSE "boundary"
    /\ UNCHANGED <<blame_answer, bl_line_number, bl_commit, bl_output>>

\* The call of extract_commit_from_blame on the item.
BlameExtract ==
    /\ bl_pc = "extract"
    /\ LET r == extract_commit_from_blame(blame_item[1])
       IN  /\ bl_commit' = r.commit
           /\ bl_raised' = r.raised
           /\ bl_pc' = IF r.raised = None THEN "done" ELSE "boundary"
    /\ UNCHANGED <<blame_answer, bl_line_number, blame_item, bl_output>>

\* The exception reaches the except clauses of the command.
BlameBoundary ==
    /\ bl_pc = "boundary"
    /\ bl_output' = Append(bl_output, [kind |-> boundary(bl_raised[1]),
                                       class |-> bl_raised[1]])
    /\ bl_pc' = "done"
    /\ UNCHANGED <<blame_answer, bl_line_number, blame_item, bl_commit, bl_raised>>

BlameIdle ==
    /\ blame_answer = [kind |-> "none", entries |-> <<>>]
    /\ bl_line_number = 0
    /\ bl_pc = "idle"
    /\ blame_item = None
    /\ bl_commit = None
    /\ bl_raised = None
    /\ bl_output = <<>>

\* ------------------------------------------------ the pin store (pinned.py)
\* str.strip(): leading and trailing whitespace removed.
Whitespace == {" ", "\n"}
RECURSIVE lstrip(_)
lstrip(s) == IF s # <<>> /\ Head(s) \in Whitespace THEN lstrip(Tail(s)) ELSE s
RECURSIVE rstrip(_)
rstrip(s) ==
    IF s # <<>> /\ s[Len(s)] \in Whitespace THEN rstrip(SubSeq(s, 1, Len(s) - 1)) ELSE s
strip(s) == rstrip(lstrip(s))

\* line.split("=", 1): the parts around the first "=", one part when there is
\* none.
split_once(s, sep) ==
    IF HasChar(s, sep)
    THEN LET i == CHOOSE j \in 1..Len(s) : s[j] = sep /\ \A h \in 1..(j - 1) : s[h] # sep
         IN  <<SubSeq(s, 1, i - 1), SubSeq(s, i + 1, Len(s))>>
    ELSE <<s>>

\* A dict is kept as its items in insertion order: <<[key, value], ...>>.
DictHas(dict, key) == \E i \in 1..Len(dict) : dict[i].key = key
DictGet(dict, key) ==
    IF DictHas(dict, key)
    THEN Some((CHOOSE e \in {dict[i] : i \in 1..Len(dict)} : e.key = key).value)
    ELSE None
DictSet(dict, key, value) ==
    IF DictHas(dict, key)
    THEN [i \in 1..Len(dict) |->
            IF dict[i].key = key THEN [dict[i] EXCEPT !.value = value] ELSE dict[i]]
    ELSE Append(dict, [key |-> key, value |-> value])
DictPop(dict, key) == SelectSeq(dict, LAMBDA e : e.key # key)

\* The loop of lines 30-35 over the lines of the file; raised is the
\* ValueError of the unpacking at line 34 for a line without "=".
RECURSIVE ParseLines(_, _)
ParseLines(lines, pinned_items) ==
    IF lines = <<>> THEN [raised |-> FALSE, items |-> pinned_items]
    ELSE LET line == strip(Head(lines))
         IN  IF line = <<>> \/ startswith(line, "#")
             THEN ParseLines(Tail(lines), pinned_items)
             ELSE LET parts == split_once(line, "=")
                  IN  IF Len(parts) # 2 THEN [raised |-> TRUE, items |-> <<>>]
                      ELSE ParseLines(Tail(lines),
                               DictSet(pinned_items, strip(parts[1]), strip(parts[2])))

\* parse_pinned_file without its cache (lines 25-36)
parse_pinned_file(text) == ParseLines(split(text, "\n"), <<>>)

\* The writing loops of lines 49-51 and 61-63: f"{key}={value}\n" per item.
RECURSIVE write_items(_)
write_items(dict) ==
    IF dict = <<>> THEN <<>>
    ELSE Head(dict).key \o <<"=">> \o Head(dict).value \o <<"\n">> \o write_items(Tail(dict))

\* The store: the file's text and the lru_cache of parse_pinned_file.
Store(text, cache) == [file |-> text, cache |-> cache]

\* parse_pinned_file(file) through lru_cache(maxsize=1): a cached dict is
\* handed out as it is, a fresh parse is cached unless it raised.
cached_parse(st) ==
    IF st.cache # None THEN [raised |-> FALSE, items |-> st.cache[1]]
    ELSE parse_pinned_file(st.file)

Outcome(st, raised, value) == [store |-> st, raised |-> raised, value |-> value]

\* get_pinned_item (lines 39-41)
get_pinned_item(st, key) ==
    LET r == cached_parse(st)
    IN  IF r.raised THEN Outcome(st, TRUE, None)
        ELSE Outcome(Store(st.file, Some(r.items)), FALSE, DictGet(r.items, key))

\* set_pinned_item (lines 44-53)
set_pinned_item(st, key, value) ==
    LET r == cached_parse(st)
    IN  IF r.raised THEN Outcome(st, TRUE, None)
        ELSE Outcome(Store(write_items(DictSet(r.items, key, value)), None), FALSE, None)

\* remove_pinned_item (lines 56-65)
remove_pinned_item(st, key) ==
    LET r == cached_parse(st)
    IN  IF r.raised THEN Outcome(st, TRUE, None)
        ELSE Outcome(Store(write_items(DictPop(r.items, key)), None), FALSE, None)

\* Faulty variant: the cache is not cleared after the file is emptied.
clear_pinned_items_keeps_cache(st) == Outcome(Store(<<>>, st.cache), FALSE, None)

\* clear_pinned_items (lines 68-71)
clear_pinned_items(st) == Outcome(Store(<<>>, None), FALSE, None)

\* ---- calls drawn
PinKeys == { <<"k">>, <<"j">>, <<"#", "k">>, <<"k", "=">> }
PinValues == { <<"v">>, <<"w">>, <<>>, <<"a", "=", "b">>, <<"v", " ">>, <<"v", "\n", "w">> }

\* The line format keeps a key and a value: no newline, no surrounding
\* whitespace, key without "=" and not starting with "#".
KeyPreserved(key) ==
    /\ ~HasChar(key, "\n") /\ strip(key) = key
    /\ ~HasChar(key, "=") /\ ~startswith(key, "#")
ValuePreserved(value) == ~HasChar(value, "\n") /\ strip(value) = value

\* What every key reads as now.
PinReads(st) == [key \in PinKeys |-> get_pinned_item(st, key)]

\* get_pinned_path creates the file empty (lines 17-19); nothing is cached.
PinInit ==
    /\ ps_file = <<>>
    /\ ps_cache = None
    /\ ps_returned = [op |-> "none", key |-> <<>>, raised |-> FALSE, value |-> None]
    /\ ps_before = PinReads(Store(<<>>, None))
    /\ ps_expected = [key \in PinKeys |-> None]
    /\ ps_preserved = TRUE
    /\ ps_calls = 0

PinCall(op, key, out) ==
    /\ ps_calls < MaxCalls
    /\ ps_calls' = ps_calls + 1
    /\ ps_before' = PinReads(Store(ps_file, ps_cache))
    /\ ps_file' = out.store.file
    /\ ps_cache' = out.store.cache
    /\ ps_returned' = [op |-> op, key |-> key, raised |-> out.raised, value |-> out.value]

GetPinnedItem ==
    \E key \in PinKeys :
        /\ PinCall("get", key, get_pinned_item(Store(ps_file, ps_cache), key))
        /\ UNCHANGED <<ps_expected, ps_preserved>>

SetPinnedItem ==
    \E key \in PinKeys, value \in PinValues :
        /\ PinCall("set", key, set_pinned_item(Store(ps_file, ps_cache), key, value))
        /\ ps_expected' = [ps_expected EXCEPT ![key] = Some(value)]
        /\ ps_preserved' = (ps_preserved /\ KeyPreserved(key) /\ ValuePreserved(value))

RemovePinnedItem ==
    \E key \in PinKeys :
        /\ PinCall("remove", key, remove_pinned_item(Store(ps_file, ps_cache), key))
        /\ ps_expected' = [ps_expected EXCEPT ![key] = None]
        /\ UNCHANGED ps_preserved

ClearPinnedItems ==
    /\ PinCall("clear", <<>>, clear_pinned_items(Store(ps_file, ps_cache)))
    /\ ps_expected' = [key \in PinKeys |-> None]
    /\ UNCHANGED ps_preserved

PinIdle ==
    /\ ps_file = <<>>
    /\ ps_cache = None
    /\ ps_returned = [op |-> "idle", key |-> <<>>, raised |-> FALSE, value |-> None]
    /\ ps_before = <<>>
    /\ ps_expected = <<>>
    /\ ps_preserved = TRUE
    /\ ps_calls = 0

\* ------------------------------------- the commands pin, related, history
\* str(n) for a non-negative int
DigitChar(d) ==
    CASE d = 0 -> "0" [] d = 1 -> "1" [] d = 2 -> "2" [] d = 3 -> "3" [] d = 4 -> "4"
      [] d = 5 -> "5" [] d = 6 -> "6" [] d = 7 -> "7" [] d = 8 -> "8" [] d = 9 -> "9"
RECURSIVE str(_)
str(n) == IF n < 10 THEN <<DigitChar(n)>> ELSE Append(str(n \div 10), DigitChar(n % 10))

\* The key the commands pin under.
FileKey == <<"f", "i", "l", "e">>

\* How a run ends: with messages on the console, or with an exception of the
\* given class leaving the command function.
Reported == [outcome |-> "message", class |-> "none"]
Uncaught(class) == [outcome |-> "uncaught", class |-> class]
Run(command, arg, end) ==
    [command |-> command, arg |-> arg, outcome |-> end.outcome, class |-> end.class]

\* A run of set_pinned_item or remove_pinned_item in a fresh process: the new
\* text of the file.  get_pinned_path raises outside a git work tree (line 10).
StoreWrite(out) ==
    IF ~cm_in_repo THEN [end |-> Uncaught("InvalidGitRepositoryError"), file |-> cm_file]
    ELSE IF out.raised THEN [end |-> Uncaught("ValueError"), file |-> cm_file]
    ELSE [end |-> Reported, file |-> out.store.file]

\* The pin command (pin.py lines 8-32): None when nothing is pinned by the
\* run, else the value handed to set_pinned_item("file", ...); the unpacking
\* of line 18 stands outside the try of lines 19-27.
pin_value(path_arg) ==
    IF HasChar(path_arg, "#") THEN
        LET parts == split(path_arg, "#")
        IN  IF Len(parts) # 2 THEN [raised |-> TRUE, value |-> <<>>]
            ELSE IF int_ok(parts[2])
                 THEN [raised |-> FALSE, value |-> parts[1] \o <<"#">> \o str(int(parts[2]))]
                 ELSE [raised |-> FALSE, value |-> path_arg]
    ELSE [raised |-> FALSE, value |-> path_arg]

\* The related command up to the call of show_related_files (related.py
\* lines 13-26) for what get_pinned_item("file") returned.
related_split(pinned_file) ==
    IF ~TruthyStr(pinned_file) THEN Reported
    ELSE IF HasChar(pinned_file[1], "#") THEN
        LET parts == split(pinned_file[1], "#")
        IN  IF Len(parts) # 2 THEN Uncaught("ValueError")
            ELSE IF ~int_ok(parts[2]) THEN Uncaught("ValueError")
            ELSE Reported
    ELSE Reported

\* What the user types after `offal pin`.
PinArguments ==
    { <<"f">>, <<"f", "#", "2">>, <<"f", "#", "0", "2">>, <<"f", "#", "x">>,
      <<"f", "#">>, <<"f", "#", "2", "#", "2">> }

\* Exceptions the body of history raises after get_file_info: none, the
\* module's own, GitPython's, a built-in.
HistoryRaises == {"none", "OffalError", "FileNotFoundError", "GitCommandError", "ValueError"}

CmdInit ==
    /\ cm_in_repo \in BOOLEAN
    /\ cm_file = <<>>
    /\ cm_log = <<>>

CmdRun(run, text) ==
    /\ Len(cm_log) < MaxRuns
    /\ cm_log' = Append(cm_log, run)
    /\ cm_file' = text
    /\ UNCHANGED cm_in_repo

\* offal pin --clear (lines 13-15)
CmdPinClear ==
    LET w == StoreWrite(remove_pinned_item(Store(cm_file, None), FileKey))
    IN  CmdRun(Run("pin --clear", <<>>, w.end), w.file)

\* offal pin <file_path> (lines 16-30)
CmdPin ==
    \E path_arg \in PinArguments :
        LET v == pin_value(path_arg)
        IN  IF v.raised
            THEN CmdRun(Run("pin", path_arg, Uncaught("ValueError")), cm_file)
            ELSE LET w == StoreWrite(set_pinned_item(Store(cm_file, None), FileKey, v.value))
                 IN  CmdRun(Run("pin", path_arg, w.end), w.file)

\* offal pin without argument (lines 31-32)
CmdPinNothing == CmdRun(Run("pin", <<>>, Reported), cm_file)

\* offal related (related.py lines 12-28); show_related_files catches every
\* exception of its body (lines 94-96).
CmdRelated ==
    LET got == get_pinned_item(Store(cm_file, None), FileKey)
        end == IF ~cm_in_repo THEN Uncaught("InvalidGitRepositoryError")
               ELSE IF got.raised THEN Uncaught("ValueError")
               ELSE related_split(got.value)
    IN  CmdRun(Run("related", <<>>, end), cm_file)

\* offal history without --file: get_file_info reads the pin under the try of
\* line 225, and whatever it or the rest of the body raises meets the except
\* clauses of lines 269-274.
CmdHistory ==
    \E later \in HistoryRaises :
        LET got == get_pinned_item(Store(cm_file, None), FileKey)
            class == IF ~cm_in_repo THEN "InvalidGitRepositoryError"
                     ELSE IF got.raised THEN "ValueError"
                     ELSE LET info == get_file_info(None, got.value)
                          IN  IF info.kind # "ok" THEN info.kind ELSE later
            shown == IF class = "none" THEN "listing" ELSE boundary(class)
        IN  CmdRun(Run("history", <<shown>>, [outcome |-> "message", class |-> class]),
                   cm_file)

CmdIdle ==
    /\ cm_in_repo = FALSE
    /\ cm_file = <<>>
    /\ cm_log = <<>>

ExtIdle == RelIdle /\ TravIdle /\ BlameIdle /\ PinIdle /\ CmdIdle

\* ------------------------------------------------------- specifications
\* One call of check_line_in_diff on a drawn diff body and line.
InitParser == ParserInit /\ TraceIdle /\ RevIdle /\ HistIdle /\ ExtIdle
NextParser ==
    \/ ParseAdded /\ UNCHANGED <<traceVars, revVars, histVars, extVars>>
    \/ ParseRemoved /\ UNCHANGED <<traceVars, revVars, histVars, extVars>>
    \/ ParseHeader /\ UNCHANGED <<traceVars, revVars, histVars, extVars>>
    \/ ParseContext /\ UNCHANGED <<traceVars, revVars, histVars, extVars>>
    \/ ParseEnd /\ UNCHANGED <<traceVars, revVars, histVars, extVars>>
SpecParser == InitParser /\ [][NextParser]_vars

\* One call of trace_line_history on a drawn commit graph, start and line.
\* The loop is a sequential program: it keeps running until it breaks.
InitTrace == TraceInit /\ ParserIdle /\ RevIdle /\ HistIdle /\ ExtIdle
NextTrace ==
    \/ TraceRoot /\ UNCHANGED <<parserVars, revVars, histVars, extVars>>
    \/ TraceDescend /\ UNCHANGED <<parserVars, revVars, histVars, extVars>>
SpecTrace == InitTrace /\ [][NextTrace]_vars /\ WF_vars(NextTrace)

\* One call of get_revisions on a drawn list, filters and reverse flag.
InitRevisions == RevInit /\ ParserIdle /\ TraceIdle /\ HistIdle /\ ExtIdle
NextRevisions == GetRevisions /\ UNCHANGED <<parserVars, traceVars, histVars, extVars>>
SpecRevisions == InitRevisions /\ [][NextRevisions]_vars

\* One run of the history command on drawn options, pin and repository.
InitHistory == HistInit /\ ParserIdle /\ TraceIdle /\ RevIdle /\ ExtIdle
NextHistory ==
    \/ HistFileInfo /\ UNCHANGED <<parserVars, traceVars, revVars, extVars>>
    \/ HistParseDates /\ UNCHANGED <<parserVars, traceVars, revVars, extVars>>
    \/ HistGetRevisions /\ UNCHANGED <<parserVars, traceVars, revVars, extVars>>
    \/ HistReport /\ UNCHANGED <<parserVars, traceVars, revVars, extVars>>
SpecHistory == InitHistory /\ [][NextHistory]_vars

\* One call of show_related_files on a drawn history of a.txt.
CoreIdle == ParserIdle /\ TraceIdle /\ RevIdle /\ HistIdle
coreVars == <<parserVars, traceVars, revVars, histVars>>
InitRelated == RelInit /\ CoreIdle /\ TravIdle /\ BlameIdle /\ PinIdle /\ CmdIdle
NextRelated ==
    \/ RelStart /\ UNCHANGED <<coreVars, travVars, blameVars, pinVars, cmdVars>>
    \/ RelCount /\ UNCHANGED <<coreVars, travVars, blameVars, pinVars, cmdVars>>
    \/ RelSummary /\ UNCHANGED <<coreVars, travVars, blameVars, pinVars, cmdVars>>
    \/ RelDetail /\ UNCHANGED <<coreVars, travVars, blameVars, pinVars, cmdVars>>
SpecRelated == InitRelated /\ [][NextRelated]_vars

\* One call of traverse_commits on a drawn commit list, the user answering
\* the prompt at most MaxInputs times.
InitTraverse == TravInit /\ CoreIdle /\ RelIdle /\ BlameIdle /\ PinIdle /\ CmdIdle
NextTraverse ==
    \/ TraverseQuit /\ UNCHANGED <<coreVars, relVars, blameVars, pinVars, cmdVars>>
    \/ TraverseContinue /\ UNCHANGED <<coreVars, relVars, blameVars, pinVars, cmdVars>>
    \/ TraverseBack /\ UNCHANGED <<coreVars, relVars, blameVars, pinVars, cmdVars>>
    \/ TraverseDiff /\ UNCHANGED <<coreVars, relVars, blameVars, pinVars, cmdVars>>
    \/ TraverseOther /\ UNCHANGED <<coreVars, relVars, blameVars, pinVars, cmdVars>>
SpecTraverse == InitTraverse /\ [][NextTraverse]_vars

\* One lookup of the commit blame names for a line, on a drawn blame answer.
InitBlame == BlameInit /\ CoreIdle /\ RelIdle /\ TravIdle /\ PinIdle /\ CmdIdle
NextBlame ==
    \/ BlameItem /\ UNCHANGED <<coreVars, relVars, travVars, pinVars, cmdVars>>
    \/ BlameExtract /\ UNCHANGED <<coreVars, relVars, travVars, pinVars, cmdVars>>
    \/ BlameBoundary /\ UNCHANGED <<coreVars, relVars, travVars, pinVars, cmdVars>>
SpecBlame == InitBlame /\ [][NextBlame]_vars

\* Up to MaxCalls calls of the pin store's functions in one process, on a
\* store that starts empty.
InitPinned == PinInit /\ CoreIdle /\ RelIdle /\ TravIdle /\ BlameIdle /\ CmdIdle
NextPinned ==
    \/ GetPinnedItem /\ UNCHANGED <<coreVars, relVars, travVars, blameVars, cmdVars>>
    \/ SetPinnedItem /\ UNCHANGED <<coreVars, relVars, travVars, blameVars, cmdVars>>
    \/ RemovePinnedItem /\ UNCHANGED <<coreVars, relVars, travVars, blameVars, cmdVars>>
    \/ ClearPinnedItems /\ UNCHANGED <<coreVars, relVars, travVars, blameVars, cmdVars>>
SpecPinned == InitPinned /\ [][NextPinned]_vars

\* Up to MaxRuns runs of the pin, related and history commands, each in a
\* process of its own, on a store that starts empty.
InitCommands == CmdInit /\ CoreIdle /\ RelIdle /\ TravIdle /\ BlameIdle /\ PinIdle
NextCommands ==
    \/ CmdPinClear /\ UNCHANGED <<coreVars, relVars, travVars, blameVars, pinVars>>
    \/ CmdPin /\ UNCHANGED <<coreVars, relVars, travVars, blameVars, pinVars>>
    \/ CmdPinNothing /\ UNCHANGED <<coreVars, relVars, travVars, blameVars, pinVars>>
    \/ CmdRelated /\ UNCHANGED <<coreVars, relVars, travVars, blameVars, pinVars>>
    \/ CmdHistory /\ UNCHANGED <<coreVars, relVars, travVars, blameVars, pinVars>>
SpecCommands == InitCommands /\ [][NextCommands]_vars

\* ------------------------------------------------------------- claims
\* The first-parent chain of the graph from commit c down to a root, newest
\* first: c, parents[0] of c, and so on.
RECURSIVE FirstParentChain(_)
FirstParentChain(c) ==
    IF repo[c].parents = <<>> THEN <<c>>
    ELSE <<c>> \o FirstParentChain(repo[c].parents[1])

\* s is t with some elements left out, order kept.
RECURSIVE IsSubseq(_, _)
IsSubseq(s, t) ==
    IF s = <<>> THEN TRUE
    ELSE IF t = <<>> THEN FALSE
    ELSE IF Head(s) = Head(t) THEN IsSubseq(Tail(s), Tail(t))
    ELSE IsSubseq(s, Tail(t))

Last(s) == s[Len(s)]

\* C1: for every commit graph and every start commit, trace_line_history
\* terminates: it runs the loop body at most once per commit of the
\* first-parent chain, and has left the loop once it has run it that often;
\* and the last element of what it returns is a commit without parents.
C1_TraceTerminatesAtRoot ==
    /\ tr_steps <= Len(FirstParentChain(initial_commit))
    /\ tr_steps = Len(FirstParentChain(initial_commit)) => tr_pc = "done"
    /\ tr_pc = "done" =>
          /\ revisions # <<>>
          /\ repo[Last(revisions)].parents = <<>>

\* C1 as a property of behaviours: the loop ends.
TraceEnds == <>(tr_pc = "done")

\* C1 witness: a finished trace that started above the root and returned the
\* start commit and the root.
C1_Witness ==
    /\ tr_pc = "done"
    /\ repo[initial_commit].parents # <<>>
    /\ Len(revisions) >= 2
    /\ revisions[1] = initial_commit

\* C2: the result is never empty, and at every moment the commits collected are
\* a subsequence, in chain order, of the first-parent chain from the start commit
\* to the root; so no commit reached only through a second parent is in it.
C2_ResultOnFirstParentChain ==
    /\ tr_pc \in {"loop", "done"} =>
         IsSubseq(revisions, FirstParentChain(initial_commit))
    /\ tr_pc = "done" => revisions # <<>>

\* C2 witness: a finished trace through a merge commit whose second parent is
\* not on the first-parent chain, with more than the root collected.
C2_Witness ==
    /\ tr_pc = "done"
    /\ Len(revisions) >= 2
    /\ \E c \in 1..MaxCommits :
          /\ Len(repo[c].parents) = 2
          /\ \E i \in 1..Len(FirstParentChain(initial_commit)) :
                FirstParentChain(initial_commit)[i] = c
          /\ \A i \in 1..Len(FirstParentChain(initial_commit)) :
                FirstParentChain(initial_commit)[i] # repo[c].parents[2]

\* C3: the line number handed to the diff parser for a commit is the remapped
\* line the parser produced for the previous (child) commit.
C3_TrackedLineCarriedDown ==
    \A i \in 2..Len(tr_calls) : tr_calls[i].line_in = tr_calls[i - 1].line_out

\* The history of the scenario: C0 = commit 1 (root), C1 = commit 2, C2 = commit 3,
\* traced from C2 for line 3.
ScenarioTraced ==
    /\ PatchTurns(ScenarioPatchC2, ScenarioFileC2, ScenarioFileC1)
    /\ PatchTurns(ScenarioPatchC1, ScenarioFileC1, ScenarioFileC0)
    /\ repo[1] = [parents |-> <<>>, diffs |-> <<>>]
    /\ repo[2] = [parents |-> <<1>>, diffs |-> <<Diff(file_path, ScenarioPatchC1)>>]
    /\ repo[3] = [parents |-> <<2>>, diffs |-> <<Diff(file_path, ScenarioPatchC2)>>]
    /\ initial_commit = 3
    /\ line_number = 3

\* C4: in the scenario the trace of line 3 from C2 returns exactly [C2, C0].
C4_ScenarioReturnsC2C0 ==
    (ScenarioTraced /\ tr_pc = "done") => revisions = <<3, 1>>

\* The tag the parser's tests give a diff line.
TagOf(line) ==
    IF startswith(line, "+") THEN "added"
    ELSE IF startswith(line, "-") THEN "removed"
    ELSE IF startswith(line, "@") THEN "hunk-header"
    ELSE "context"

\* The reference pass of the specification: every line of the diff is read,
\* modified is a flag that is set and never cleared.
RECURSIVE RefEvaluate(_, _, _, _, _)
RefEvaluate(lines, i, offset, trackedLine, modified) ==
    IF i > Len(lines) THEN [modified |-> modified, remappedLine |-> trackedLine]
    ELSE LET tag == TagOf(lines[i])
         IN  IF tag = "added" THEN
                 RefEvaluate(lines, i + 1, offset + 1, trackedLine, modified)
             ELSE IF tag = "removed" THEN
                 RefEvaluate(lines, i + 1, offset - 1, trackedLine,
                             modified \/ (offset - 1 + trackedLine = 0))
             ELSE IF tag = "context" THEN
                 RefEvaluate(lines, i + 1, offset,
                             IF offset < 0 THEN trackedLine + 1
                             ELSE IF offset > 0 THEN trackedLine - 1
                             ELSE trackedLine,
                             modified)
             ELSE RefEvaluate(lines, i + 1, offset, trackedLine, modified)

\* C5: for every diff body and tracked line, the boolean check_line_in_diff
\* returns is the modified flag of the reference pass.
C5_ParserMatchesReference ==
    cl_pc = "done" =>
        cl_result = RefEvaluate(diff_lines, 1, 0, cl_line_number, FALSE).modified

\* C5 witness: a call that returned True after context lines had moved the
\* tracked line.
C5_Witness ==
    /\ cl_pc = "done"
    /\ cl_result
    /\ cur_line # cl_line_number

\* The claim's author predicate: the lower-cased author string is a substring
\* of the lower-cased name or of the lower-cased email; an absent field never
\* matches.
AuthorKeeps(commit, author) ==
    \/ /\ commit.author.name # None
       /\ Contains(lower(author), lower(commit.author.name[1]))
    \/ /\ commit.author.email # None
       /\ Contains(lower(author), lower(commit.author.email[1]))

\* The author string with the case of every letter swapped.
SwapCase(s) ==
    [i \in 1..Len(s) |-> IF s[i] = "a" THEN "A" ELSE IF s[i] = "A" THEN "a" ELSE s[i]]

AuthorFilterAsClaimed ==
    /\ gr_filtered = SelectSeq(gr_retrieved, LAMBDA c : AuthorKeeps(c, gr_author[1]))
    /\ gr_filtered = filter_revisions(gr_retrieved, Some(SwapCase(gr_author[1])), None, None)

\* C6 as stated: for every author string, the author filter keeps exactly the
\* commits of AuthorKeeps, and the same commits for the case-swapped string.
C6_AuthorFilterEveryString ==
    (gr_pc = "done" /\ gr_author # None /\ gr_before = None /\ gr_after = None)
        => AuthorFilterAsClaimed

\* C6 amended: the same for every non-empty author string.
C6_AuthorFilterNonEmptyString ==
    (gr_pc = "done" /\ TruthyStr(gr_author) /\ gr_before = None /\ gr_after = None)
        => AuthorFilterAsClaimed

\* C6 witness: an upper-case author string that keeps one commit by its
\* lower-case name and drops a commit with neither name nor email.
C6_Witness ==
    /\ gr_pc = "done"
    /\ gr_author = Some(<<"A">>)
    /\ gr_before = None /\ gr_after = None
    /\ Len(gr_retrieved) = 2
    /\ gr_retrieved[1] = Commit(Actor(None, None), Midnight(Date(2023, 1, 1)))
    /\ gr_retrieved[2].author.name = Some(<<"a", "B">>)
    /\ gr_filtered = <<gr_retrieved[2]>>

\* The claim's date predicate on the committed timestamp, both bounds inclusive.
DateKeeps(commit, before, after) ==
    /\ (before = None \/ commit.committed_datetime <= before[1])
    /\ (after = None \/ commit.committed_datetime >= after[1])

\* The day a commit is dated (UTC).
DayOf(commit) == commit.committed_datetime \div TicksPerDay

DateScenario ==
    /\ Len(gr_retrieved) = 4
    /\ \A i \in 1..4 : DayOf(gr_retrieved[i]) = Ordinal(ScenarioDates[i])
    /\ gr_after = Some(Midnight(ScenarioAfter))
    /\ gr_before = Some(Midnight(ScenarioBefore))

\* C7: the date filter keeps exactly the commits of DateKeeps; a commit
\* committed exactly at a bound is kept; the scenario's four commits reduce to
\* the ones dated 2023-01-01 and 2023-03-15.
C7_DateFilterInclusive ==
    (gr_pc = "done" /\ gr_author = None) =>
        /\ gr_filtered = SelectSeq(gr_retrieved, LAMBDA c : DateKeeps(c, gr_before, gr_after))
        /\ \A i \in 1..Len(gr_retrieved) :
              (/\ gr_before # None
               /\ gr_retrieved[i].committed_datetime = gr_before[1]
               /\ gr_after = None)
                  => \E j \in 1..Len(gr_filtered) : gr_filtered[j] = gr_retrieved[i]
        /\ DateScenario => gr_filtered = <<gr_retrieved[2], gr_retrieved[3]>>

\* C7 witness: the scenario, filtered.
C7_Witness ==
    /\ gr_pc = "done"
    /\ gr_author = None
    /\ DateScenario
    /\ Len(gr_filtered) = 2

\* C9: with reverse the returned list is the filtered list inverted, element i
\* becoming element n+1-i; without it the filtered list is returned as it is.
C9_ReverseInvertsFiltered ==
    gr_pc = "done" =>
        /\ gr_filtered = SelectSeq(gr_retrieved, LAMBDA c :
              /\ (TruthyStr(gr_author) => AuthorKeeps(c, gr_author[1]))
              /\ DateKeeps(c, gr_before, gr_after))
        /\ Len(gr_result) = Len(gr_filtered)
        /\ \A i \in 1..Len(gr_filtered) :
              gr_result[i] = gr_filtered[IF gr_reverse THEN Len(gr_filtered) + 1 - i ELSE i]

\* C9 witness: a reversed call where the filter dropped a commit and kept two
\* different ones.
C9_Witness ==
    /\ gr_pc = "done"
    /\ gr_reverse
    /\ Len(gr_filtered) = 2
    /\ Len(gr_retrieved) > 2
    /\ gr_filtered[1] # gr_filtered[2]
    /\ gr_result = <<gr_filtered[2], gr_filtered[1]>>

\* The commits a finished run of history had to choose from: the log the
\* repository answered with, filtered by the claim's author and date
\* predicates, inverted when --reverse was given.
HistRetrieved ==
    IF TruthyInt(use_line_number) THEN repository.line_log ELSE repository.file_log
HistKept ==
    SelectSeq(HistRetrieved, LAMBDA c :
        /\ (TruthyStr(h_author) => AuthorKeeps(c, h_author[1]))
        /\ DateKeeps(c, before_date, after_date))
HistExpected ==
    [i \in 1..Len(HistKept) |-> HistKept[IF h_reverse THEN Len(HistKept) + 1 - i ELSE i]]

Min(a, b) == IF a <= b THEN a ELSE b

Printed(kind) == {i \in 1..Len(output) : output[i].kind = kind}

\* What C8 says of a run that listed commits.
LimitCapsDisplay ==
    \A i \in Printed("listing") :
        /\ Len(output[i].commits) = Min(limit, Len(HistExpected))
        /\ output[i].commits = SubSeq(HistExpected, 1, Len(output[i].commits))
        /\ Len(commits) = Len(HistExpected)
        /\ \A j \in Printed("showing_of") : output[j].m = Len(HistExpected)

\* C8 as stated: for every limit k the command lists exactly the first
\* min(k, total) commits, and the total it reports is the number of commits left
\* after filtering.
C8_LimitCapsDisplayEveryLimit ==
    h_pc = "done" => LimitCapsDisplay

\* C8 amended: the same for every limit k >= 0; and the total is reported
\* exactly when it exceeds the limit.
C8_LimitCapsDisplayFromZero ==
    (h_pc = "done" /\ limit >= 0) =>
        /\ LimitCapsDisplay
        /\ \A i \in Printed("listing") :
              (Len(HistExpected) > limit) <=>
                  (\E j \in Printed("showing_of") :
                      output[j].n = limit /\ output[j].m = Len(HistExpected))

\* C8 witness: three commits retrieved, two left by the author filter, one
\* listed under --limit 1 and "1 of 2" reported.
C8_Witness ==
    /\ h_pc = "done"
    /\ limit = 1
    /\ Len(HistRetrieved) = 3
    /\ \E i \in Printed("listing") : Len(output[i].commits) = 1
    /\ \E j \in Printed("showing_of") : output[j].n = 1 /\ output[j].m = 2

\* A date option that is given and is not a calendar date in year-month-day
\* form (the empty string included).
IsCalendarDate(text) ==
    /\ text.kind = "ymd"
    /\ text.m >= 1 /\ text.m <= 12
    /\ text.d >= 1
    /\ text.d <= (IF text.m = 2 THEN (IF text.y % 4 = 0 /\ (text.y % 100 # 0 \/ text.y % 400 = 0)
                                      THEN 29 ELSE 28)
                  ELSE IF text.m \in {4, 6, 9, 11} THEN 30 ELSE 31)
NotADate(o) == o # None /\ ~IsCalendarDate(o[1])

\* What C10 says of a run: nothing was retrieved or filtered, and (the file
\* having been resolved) the date-format error is all that was printed.
RejectedBeforeRetrieval ==
    /\ gr_calls = 0
    /\ commits = <<>>
    /\ file_info.kind = "ok" => output = <<Say("date_format_error")>>

\* C10 as stated: when --before or --after is not a valid date, the run rejects
\* it with the date-format error and never calls get_revisions.
C10_InvalidDateRejectedFirst ==
    (h_pc = "done" /\ (NotADate(h_before) \/ NotADate(h_after)))
        => RejectedBeforeRetrieval

\* C10 amended: the same when the invalid --before or --after string is not
\* empty.
C10_NonEmptyInvalidDateRejectedFirst ==
    (h_pc = "done" /\ \/ (NotADate(h_before) /\ h_before[1].kind # "empty")
                      \/ (NotADate(h_after) /\ h_after[1].kind # "empty"))
        => RejectedBeforeRetrieval

\* C10 witness: a run on a resolved file with a valid --before and --after
\* 2023-04-31, ended by the date-format error.
C10_Witness ==
    /\ h_pc = "done"
    /\ file_info.kind = "ok"
    /\ h_before = Some(Ymd(2023, 6, 30))
    /\ h_after = Some(Ymd(2023, 4, 31))
    /\ output = <<Say("date_format_error")>>
    /\ gr_calls = 0

\* The parser's locals after the i-th loop iteration of the call.
ParserAfter(i) ==
    IF i < Len(cl_hist)
    THEN [line_offset |-> cl_hist[i + 1].line_offset,
          line_number |-> cl_hist[i + 1].line_number]
    ELSE [line_offset |-> line_offset, line_number |-> cur_line]

\* C15: a hunk-header line changes nothing in the parser: the running offset
\* and the tracked line after the header equal their values before it, so
\* both carry over from one hunk to the next and are never reset.
C15_HunkHeaderChangesNothing ==
    \A i \in 1..Len(cl_hist) :
        startswith(cl_hist[i].line, "@") =>
            /\ ParserAfter(i).line_offset = cl_hist[i].line_offset
            /\ ParserAfter(i).line_number = cl_hist[i].line_number

\* C15 witness: the loop has read a second hunk header at a moment when the
\* first hunk had left a non-zero offset and a moved tracked line.
C15_Witness ==
    \E i \in 2..Len(cl_hist) :
        /\ startswith(cl_hist[i].line, "@")
        /\ startswith(cl_hist[1].line, "@")
        /\ cl_hist[i].line_offset # 0
        /\ cl_hist[i].line_number # cl_line_number

\* The oldest commit of a commit list: the one committed first.
Oldest(list) ==
    CHOOSE c \in {list[i] : i \in 1..Len(list)} :
        \A i \in 1..Len(list) : c.committed_datetime <= list[i].committed_datetime

\* C16: when a line-specific history is listed with reverse requested, the
\* commit the summary names as the one that first introduced the line is the
\* oldest commit of the commit sequence, for every length and every limit.
C16_FirstIntroducedIsOldest ==
    (h_pc = "done" /\ h_reverse) =>
        \A i \in 1..Len(output) :
            output[i].kind = "first_introduced" =>
                output[i].commits = <<Oldest(commits)>>

\* The files a commit changed, as the ranking's contract reads them: every
\* file of the tree for a root commit, the paths with change stats otherwise.
ChangedPaths(commit) ==
    LET files == IF commit.parents = <<>> THEN commit.tree ELSE commit.stats
    IN  {files[i] : i \in 1..Len(files)}

\* The co-occurrence counts of a target over a history: every path other than
\* the target changed in at least one commit, with the number of such commits.
CoOccurrences(target, history) ==
    { [file |-> p,
       count |-> Cardinality({i \in 1..Len(history) : p \in ChangedPaths(history[i])})] :
      p \in UNION {ChangedPaths(history[i]) : i \in 1..Len(history)} \ {target} }

\* The scenario's history of a.txt, newest first: C2 changes a.txt, b.txt and
\* c.txt, C1 changes a.txt and b.txt.
ScenarioHistory(log) ==
    /\ Len(log) = 2
    /\ ChangedPaths(log[1]) = {a_txt, b_txt, c_txt}
    /\ ChangedPaths(log[2]) = {a_txt, b_txt}

SummaryRows == {rl_output[i].rows : i \in {j \in 1..Len(rl_output) : rl_output[j].kind = "summary"}}

\* C11: the ranking holds exactly the paths other than the target that were
\* changed in at least one commit of the history, each with the number of
\* those commits that changed it; the target never appears; the scenario's
\* history gives [(b.txt, 2), (c.txt, 1)].
C11_RankingCountsOtherPaths ==
    \A rows \in SummaryRows :
        /\ {rows[i] : i \in 1..Len(rows)} = CoOccurrences(rl_file_path, rl_commits)
        /\ \A i \in 1..Len(rows) : rows[i].file # rl_file_path
        /\ ScenarioHistory(rl_commits) =>
               rows = <<[file |-> b_txt, count |-> 2], [file |-> c_txt, count |-> 1]>>

\* C12: the ranking is sorted by descending count, ties by ascending path, so
\* its order does not depend on the order the commits and files are visited.
C12_RankingSortedByCountThenPath ==
    \A rows \in SummaryRows :
        \A i \in 1..(Len(rows) - 1) :
            \/ rows[i].count > rows[i + 1].count
            \/ /\ rows[i].count = rows[i + 1].count
               /\ StrLess(rows[i].file, rows[i + 1].file)

\* C17: in traverse_commits the index stays within 0..len(commits) and a
\* commit is displayed only at an index below len(commits); 'c' moves the
\* index forward by one, 'b' back by one only above 0, 'd' and any other
\* input leave it unchanged, and the loop ends exactly when 'q' is entered or
\* the index reaches len(commits).
C17_TraverseIndexInRange ==
    /\ tv_index \in 0..Len(tv_commits)
    /\ \A i \in 1..Len(tv_log) :
        LET it == tv_log[i]
        IN  /\ it.index \in 0..(Len(tv_commits) - 1)
            /\ it.index = IF i = 1 THEN 0 ELSE tv_log[i - 1].index_after
            /\ it.user_input = "c" => it.index_after = it.index + 1
            /\ it.user_input = "b" =>
                   it.index_after = IF it.index > 0 THEN it.index - 1 ELSE it.index
            /\ it.user_input \notin {"c", "b"} => it.index_after = it.index
            /\ i < Len(tv_log) =>
                   (it.user_input # "q" /\ it.index_after < Len(tv_commits))
    /\ tv_pc = "done" <=>
           \/ tv_index = Len(tv_commits)
           \/ tv_log # <<>> /\ tv_log[Len(tv_log)].user_input = "q"

\* C17 witness: the user went forward, back at index 0 and above it, looked at
\* a diff, and the loop ended by reaching the end of the list.
C17_Witness ==
    /\ tv_pc = "done"
    /\ tv_index = Len(tv_commits)
    /\ \E i \in 1..Len(tv_log) : tv_log[i].user_input = "b" /\ tv_log[i].index = 0
    /\ \E i \in 1..Len(tv_log) : tv_log[i].user_input = "b" /\ tv_log[i].index > 0

\* The error kinds of the specification's taxonomy, which are the engine's
\* own errors.
LineNotFound(class) == IsOffalError(class)

\* C14: when the blame query returns no entry, the lookup of the starting
\* commit fails with the line-not-found kind of the error taxonomy, an error
\* of the engine reported as such at the command boundary, and no commit is
\* returned.
C14_EmptyBlameIsLineNotFound ==
    (bl_pc = "done" /\ blame_answer.kind = "ok" /\ blame_answer.entries = <<>>) =>
        /\ bl_commit = None
        /\ bl_raised # None
        /\ LineNotFound(bl_raised[1])
        /\ bl_output = <<[kind |-> "error", class |-> bl_raised[1]]>>

\* C18: after any sequence of set, remove and clear calls in one process, with
\* keys and values the line format preserves, get_pinned_item(k) returns the
\* value of the most recent set of k not followed by remove(k) or a clear, and
\* None otherwise; the parse cache never holds anything but the parse of the
\* file's text; a set or remove of one key leaves every other key's value as
\* it was.
C18_PinStoreReadsLastSet ==
    ps_preserved =>
        /\ \A key \in DOMAIN ps_expected :
               LET out == get_pinned_item(Store(ps_file, ps_cache), key)
               IN  ~out.raised /\ out.value = ps_expected[key]
        /\ ps_returned.op = "get" =>
               ~ps_returned.raised /\ ps_returned.value = ps_expected[ps_returned.key]
        /\ ps_cache # None =>
               ps_cache[1] = parse_pinned_file(ps_file).items
        /\ ps_returned.op \in {"set", "remove"} =>
               \A key \in DOMAIN ps_expected \ {ps_returned.key} :
                   get_pinned_item(Store(ps_file, ps_cache), key).value = ps_before[key].value

\* C18 witness: two keys were set, one to a value holding "=", and a read of
\* that key parsed the file, cached the parse and returned the value.
C18_Witness ==
    /\ ps_preserved
    /\ ps_returned.op = "get"
    /\ ps_returned.value = Some(<<"a", "=", "b">>)
    /\ ps_cache # None
    /\ Len(ps_cache[1]) = 2

\* C13: every error raised while a command runs is caught at the command
\* boundary and turned into a message; none leaves the history, related or
\* pin command as an uncaught exception, for any pinned state an earlier pin
\* command left and any repository state.
C13_NoUncaughtException ==
    \A i \in 1..Len(cm_log) : cm_log[i].outcome = "message"

====
